---- MODULE Spec2Model ----
(***************************************************************************)
(* A model of runner.go of boomer: the worker spawner, the                 *)
(* hatch/stop/close lifecycle and the controller-driven state machine of   *)
(* the slave runner (Agent Mode).                                          *)
(*                                                                         *)
(* Every goroutine of the program is a process of the model with its own   *)
(* position: run() (runpc), the listener (lpc), one spawner per hatch      *)
(* cycle (spc) and the user goroutines it starts (wpc).  A step of a       *)
(* process holds at most one access to memory that another goroutine       *)
(* races on (r.state, r.numClients, a stop channel); the unsynchronised    *)
(* accesses to r.state are taken as atomic word accesses that interleave   *)
(* freely.  A Go panic outside safeRun ends the process: its goroutines    *)
(* and its memory are gone (Crash), what it has sent stays sent, and       *)
(* nothing moves afterwards.                                               *)
(***************************************************************************)
EXTENDS Integers, Sequences, FiniteSets, TLC

\* ------------------------------------------------------------- bounds
\* hatch cycles (startHatching calls) in one run
MaxCycles == 2
\* workers requested by all hatch messages of one run together
MaxWorkers == 1
\* inbound controller messages the listener acts on in one run (a message
\* that is no row of the switch changes nothing and is not counted)
MaxMsgs == 3
\* calls of close() by the embedding program
MaxCloses == 2
\* the random draw of a task selection is one of 0/DrawDen .. (DrawDen-1)/DrawDen
DrawDen == 4
\* the hatch_rate of a payload is one of 0/RateDen .. MaxRate (a float64)
RateDen == 2
\* the largest hatch rate, in workers a second
MaxRate == 1
\* output sinks added to one runner
MaxOutputs == 1
\* stats events the stats collaborator hands to the relay in one run
MaxEvents == 2
\* tasks of a runner, and the largest Task.Weight, where selection is examined
MaxTasks == 2
MaxWeight == 2

\* ------------------------------------------------ constants of the code
stateInit == "ready"
stateHatching == "hatching"
stateRunning == "running"
stateStopped == "stopped"
stateQuitting == "quitting"

Cycles == 1..MaxCycles
Workers == 1..MaxWorkers
Sinks == 1..MaxOutputs

\* the task lists a runner is constructed with: sequences of Task.Weight
TaskLists == {<<1>>}

\* the task lists for the examination of the selection: every non-empty list
\* of at most MaxTasks weights in 0..MaxWeight
SelectTaskLists ==
    UNION { [1..n -> 0..MaxWeight] : n \in 1..MaxTasks }

VARIABLES
    \* runner fields
    state,              \* r.state ("" until run() sets it)
    stopChan,           \* r.stopChan: the cycle whose channel it holds, 0 = nil
    sig,                \* per cycle: its stop channel, "open" or "closed"
    closeChan,          \* r.closeChan, "open" or "closed"
    numClients,         \* r.numClients
    hatchRate,          \* r.hatchRate
    hatchType,          \* r.hatchType
    hatchCount,         \* localRunner.hatchCount (0 in a slaveRunner)
    rateLimitEnabled,   \* r.rateLimitEnabled
    limiterOn,          \* the rate limiter has been Start()ed and not Stop()ped
    tasks,              \* r.tasks, as the sequence of the weights
    \* the event bus and the transport
    subscribed,         \* onQuiting is subscribed to "boomer:quit"
    outbox,             \* what run() and the listener have put on
                        \* client.sendChannel(), in order
    hcSent,             \* per cycle: the hatch_complete its spawner has put
                        \* on client.sendChannel(), if any
    \* positions of the goroutines
    runpc,              \* slaveRunner.run
    lpc,                \* the listener goroutine
    msg,                \* the message the listener is handling
    spc,                \* per cycle: the spawner goroutine
    sarg,               \* per cycle: the spawner's spawnCount, i, weightSum
    wpc,                \* per worker: the user goroutine
    wcyc,               \* per worker: the cycle whose quit channel it holds
    wsel,               \* per worker: the task selected in this iteration
    wdraw,              \* per worker: the draws of its latest selection
    \* the process
    panicked,           \* "" or the runtime error that ended the process
    \* bookkeeping of the model (not program state)
    stateWriter,        \* the goroutine that wrote r.state last
    fromReady,          \* per cycle: its hatch message was taken in state
                        \* ready or stopped, with no stop() before it
    nmsgs, ncycles, nworkers, nrequested, ncloses,
    \* the stats relay of run() and the output sinks
    rpc,                \* the relay goroutine
    ndrained,           \* events taken from r.stats.messageToRunnerChan
    rcount,             \* data["user_count"] of the event in hand
    statsAt,            \* the value r.state had when the latest stats message
                        \* was put on client.sendChannel() ("none": none yet)
    outputs,            \* len(r.outputs)
    pending,            \* outputOnEevent: the sinks the WaitGroup waits for
    delivered           \* per sink: the OnEvent calls made on it

runnerVars == <<stopChan, sig, numClients, hatchRate, limiterOn>>
cfgVars == <<hatchType, hatchCount, rateLimitEnabled, tasks>>
stateVars == <<state, stateWriter>>
listenerVars == <<lpc, msg, nrequested, nmsgs>>
spawnerVars == <<spc, sarg, hcSent, ncycles, fromReady>>
workerVars == <<wpc, wcyc, wsel, wdraw, nworkers>>
closeVars == <<closeChan, ncloses>>
relayVars == <<rpc, ndrained, rcount, statsAt>>
sinkVars == <<outputs, pending, delivered>>

vars == <<runnerVars, cfgVars, stateVars, listenerVars, spawnerVars, workerVars,
          closeVars, subscribed, outbox, runpc, panicked,
          relayVars, sinkVars>>

\* ------------------------------------------------------------ messages
NoMsg == [type |-> "none"]

\* no selection has been made, or its draws are not recorded
NoDraw == [blocked |-> FALSE, idx |-> 0, d |-> 0]

\* a payload field as it arrives: "integer" (which the decoder hands over as
\* a uint64 or an int64), "float64", or "missing"
Field(k, v) == [kind |-> k, val |-> v]

\* newMessage(type, data, nodeID), with the goroutine that sent it and the
\* hatch cycle it belongs to (0: none)
Message(t, count, cyc, from) ==
    [type |-> t, count |-> count, cyc |-> cyc, from |-> from]

Send(m) == outbox' = Append(outbox, m)

\* whether run() or the listener has sent a message of this type for cycle c
Sent(t, c) == \E k \in 1..Len(outbox) : outbox[k].type = t /\ outbox[k].cyc = c

\* no hatch_complete sent
NoHC == [sent |-> FALSE, count |-> 0, acked |-> FALSE, stopped |-> FALSE,
         closed |-> FALSE]

alive == panicked = ""

NoSpawn == [spawnCount |-> 0, i |-> 0, weightSum |-> 0, callback |-> FALSE]

\* ---------------------------------------------------------------- Init
\* an unhandled panic: the runtime prints `reason` and the process exits
Crash(reason) ==
    /\ panicked' = reason
    /\ state' = "" /\ stateWriter' = "none"
    /\ stopChan' = 0
    /\ sig' = [c \in Cycles |-> "none"]
    /\ closeChan' = "open"
    /\ numClients' = 0 /\ hatchRate' = 0 /\ limiterOn' = FALSE
    /\ subscribed' = FALSE
    /\ runpc' = "dead" /\ lpc' = "dead" /\ msg' = NoMsg
    /\ spc' = [c \in Cycles |-> "dead"]
    /\ sarg' = [c \in Cycles |-> NoSpawn]
    /\ fromReady' = [c \in Cycles |-> FALSE]
    /\ wpc' = [w \in Workers |-> "dead"]
    /\ wcyc' = [w \in Workers |-> 0]
    /\ wsel' = [w \in Workers |-> 0]
    /\ wdraw' = [w \in Workers |-> NoDraw]
    /\ nmsgs' = 0 /\ ncycles' = 0 /\ nworkers' = 0 /\ nrequested' = 0
    /\ ncloses' = 0
    /\ rpc' = "dead" /\ ndrained' = 0 /\ rcount' = 0 /\ statsAt' = "none"
    /\ outputs' = 0 /\ pending' = {} /\ delivered' = [o \in Sinks |-> 0]
    /\ UNCHANGED <<cfgVars, outbox, hcSent>>

\* the runner as newSlaveRunner returns it
Init ==
    /\ state = ""
    /\ stateWriter = "none"
    /\ stopChan = 0
    /\ sig = [c \in Cycles |-> "none"]
    /\ closeChan = "open"
    /\ numClients = 0
    /\ hatchRate = 0
    /\ hatchType \in {"smooth", "asap"}
    /\ hatchCount = 0
    /\ rateLimitEnabled \in BOOLEAN
    /\ limiterOn = FALSE
    /\ tasks \in TaskLists
    /\ subscribed = FALSE
    /\ outbox = <<>>
    /\ runpc = "start"
    /\ lpc = "off"
    /\ msg = NoMsg
    /\ spc = [c \in Cycles |-> "none"]
    /\ sarg = [c \in Cycles |-> NoSpawn]
    /\ hcSent = [c \in Cycles |-> NoHC]
    /\ fromReady = [c \in Cycles |-> FALSE]
    /\ wpc = [w \in Workers |-> "none"]
    /\ wcyc = [w \in Workers |-> 0]
    /\ wsel = [w \in Workers |-> 0]
    /\ wdraw = [w \in Workers |-> NoDraw]
    /\ panicked = ""
    /\ ncycles = 0
    /\ nworkers = 0
    /\ nrequested = 0
    /\ nmsgs = 0
    /\ ncloses = 0
    /\ rpc = "off"
    /\ ndrained = 0
    /\ rcount = 0
    /\ statsAt = "none"
    /\ outputs = 0
    /\ pending = {}
    /\ delivered = [o \in Sinks |-> 0]

\* ------------------------------------------------------ slaveRunner.run
\* r.state = stateInit; newClient; connect, which fails or not
RunConnect ==
    /\ alive /\ runpc = "start"
    /\ state' = stateInit
    /\ stateWriter' = "run"
    /\ \E ok \in BOOLEAN : runpc' = IF ok THEN "listen" ELSE "failed"
    /\ UNCHANGED <<runnerVars, cfgVars, listenerVars, spawnerVars, workerVars,
                   closeVars, subscribed, outbox, panicked,
                   relayVars, sinkVars>>

\* r.startListener(); r.stats.start(); client_ready is sent (one step: the
\* controller sends nothing to a worker it has not heard of)
RunStart ==
    /\ alive /\ runpc = "listen"
    /\ lpc' = "idle"
    /\ Send(Message("client_ready", 0, 0, "run"))
    /\ runpc' = "subscribe"
    /\ UNCHANGED <<runnerVars, cfgVars, stateVars, msg, nrequested,
                   nmsgs, spawnerVars, workerVars, closeVars, subscribed,
                   panicked, relayVars, sinkVars>>

\* the relay goroutine is started (the heartbeat goroutine, which only reads
\* r.state, is left out); Events.Subscribe("boomer:quit", r.onQuiting)
RunSubscribe ==
    /\ alive /\ runpc = "subscribe"
    /\ rpc' = "idle"
    /\ subscribed' = TRUE
    /\ runpc' = "done"
    /\ UNCHANGED <<runnerVars, cfgVars, stateVars, listenerVars, spawnerVars,
                   workerVars, closeVars, outbox, panicked, ndrained, rcount,
                   statsAt, sinkVars>>

\* ---------------------------------------------------- slaveRunner.close
\* stats.close(); client.close(); close(r.closeChan): closing a closed
\* channel is a runtime panic
Close ==
    /\ alive /\ ncloses < MaxCloses
    /\ IF closeChan = "closed"
         THEN Crash("close of closed channel: closeChan")
         ELSE /\ closeChan' = "closed"
              /\ ncloses' = ncloses + 1
              /\ UNCHANGED <<runnerVars, cfgVars, stateVars, listenerVars,
                             spawnerVars, workerVars, subscribed, outbox, runpc,
                             panicked, relayVars, sinkVars>>

\* ------------------------------------------------------- runner.stop
\* close(r.stopChan) panics on a nil and on a closed channel
StopPanics == stopChan = 0 \/ sig[stopChan] = "closed"

StopPanic ==
    IF stopChan = 0 THEN "close of nil channel: stopChan"
    ELSE "close of closed channel: stopChan"

\* close(r.stopChan); rateLimiter.Stop() if enabled.  (outputOnStop and the
\* "boomer:stop" event have no effect on the runner.)
stop ==
    /\ sig' = [sig EXCEPT ![stopChan] = "closed"]
    /\ limiterOn' = IF rateLimitEnabled THEN FALSE ELSE limiterOn

\* ------------------------------------------------ slaveRunner.onQuiting
\* the subscriber of "boomer:quit"
onQuiting(from) ==
    IF state # stateQuitting
      THEN Send(Message("quit", 0, 0, from))
      ELSE UNCHANGED outbox

\* Events.Publish("boomer:quit"): the subscribers run in the publishing
\* goroutine
PublishQuit(from) ==
    IF subscribed THEN onQuiting(from) ELSE UNCHANGED outbox

\* ------------------------------------------------------- the listener
HatchMsg(nc, hr) == [type |-> "hatch", num_clients |-> nc, hatch_rate |-> hr]

\* the hatch payloads a controller sends, well-formed or not, asking for at
\* most `room` workers; the value of a float64 field is val/RateDen
HatchPayloads(room) ==
    { HatchMsg(Field("integer", n), Field("float64", r)) :
          n \in 0..room, r \in 0..(MaxRate * RateDen) }
    \cup { HatchMsg(Field("missing", 0), Field("float64", 0)),
           HatchMsg(Field("integer", 0), Field("missing", 0)) }

Inbound(room) ==
    HatchPayloads(room)
        \cup { [type |-> t] : t \in {"stop", "quit", "unknown"} }

\* a switch that has a case "stop" in state ready as well
DispatchStopInReady(st, type) ==
    CASE st = stateInit /\ type = "hatch" -> "hatch"
      [] st = stateInit /\ type = "quit" -> "ready_quit"
      [] st = stateInit /\ type = "stop" -> "stop"
      [] st \in {stateHatching, stateRunning} /\ type = "hatch" -> "rehatch"
      [] st \in {stateHatching, stateRunning} /\ type = "stop" -> "stop"
      [] st \in {stateHatching, stateRunning} /\ type = "quit" -> "quit"
      [] st = stateStopped /\ type = "hatch" -> "hatch"
      [] st = stateStopped /\ type = "quit" -> "stopped_quit"
      [] OTHER -> "drop"

\* the switch of onMessage: where the handler goes for (r.state, msg.Type);
\* "drop" when no case is taken
Dispatch(st, type) ==
    CASE st = stateInit /\ type = "hatch" -> "hatch"
      [] st = stateInit /\ type = "quit" -> "ready_quit"
      [] st \in {stateHatching, stateRunning} /\ type = "hatch" -> "rehatch"
      [] st \in {stateHatching, stateRunning} /\ type = "stop" -> "stop"
      [] st \in {stateHatching, stateRunning} /\ type = "quit" -> "quit"
      [] st = stateStopped /\ type = "hatch" -> "hatch"
      [] st = stateStopped /\ type = "quit" -> "stopped_quit"
      [] OTHER -> "drop"

\* case msg := <-r.client.recvChannel(): r.onMessage(msg), up to the switch
\* on r.state and msg.Type
ListenerRecv ==
    /\ alive /\ lpc = "idle" /\ nmsgs < MaxMsgs
    /\ \E m \in Inbound(MaxWorkers - nrequested) :
        /\ m.type = "hatch" => ncycles < MaxCycles
        /\ lpc' = Dispatch(state, m.type)
        /\ msg' = IF lpc' = "drop" THEN NoMsg ELSE m
        /\ nrequested' = IF m.type = "hatch" /\ lpc' # "drop"
                           THEN nrequested + m.num_clients.val ELSE nrequested
        /\ nmsgs' = IF lpc' # "drop" THEN nmsgs + 1 ELSE nmsgs
    /\ UNCHANGED <<runnerVars, cfgVars, stateVars, spawnerVars, workerVars,
                   closeVars, subscribed, outbox, runpc, panicked,
                   relayVars, sinkVars>>

\* no case of the switch is taken: onMessage returns
ListenerDrop ==
    /\ alive /\ lpc = "drop"
    /\ lpc' = "idle"
    /\ UNCHANGED <<runnerVars, cfgVars, stateVars, msg, nrequested,
                   nmsgs, spawnerVars, workerVars, closeVars, subscribed,
                   outbox, runpc, panicked, relayVars, sinkVars>>

\* case <-r.closeChan: return
ListenerExit ==
    /\ alive /\ lpc = "idle" /\ closeChan = "closed"
    /\ lpc' = "exit"
    /\ UNCHANGED <<runnerVars, cfgVars, stateVars, msg, nrequested,
                   nmsgs, spawnerVars, workerVars, closeVars, subscribed,
                   outbox, runpc, panicked,
                   relayVars, sinkVars>>


\* case "hatch": r.state = stateHatching, and r.stop() first when the state
\* was hatching or running
ListenerHatch ==
    /\ alive /\ lpc \in {"hatch", "rehatch"}
    /\ IF lpc = "rehatch" /\ StopPanics
         THEN Crash(StopPanic)
         ELSE /\ state' = stateHatching
              /\ stateWriter' = "listener"
              /\ IF lpc = "rehatch" THEN stop ELSE UNCHANGED <<sig, limiterOn>>
              /\ lpc' = "hatch_msg"
              /\ fromReady' = [fromReady EXCEPT ![ncycles + 1] = (lpc = "hatch")]
              /\ UNCHANGED <<stopChan, numClients, hatchRate, cfgVars, msg,
                             nrequested, nmsgs, spc, sarg, hcSent, ncycles,
                             workerVars, closeVars, subscribed, outbox, runpc,
                             panicked, relayVars, sinkVars>>

\* ------------------------------------------ slaveRunner.onHatchMessage
\* rate.(float64): the assertion panics unless the field is a float64
RateOK(m) == m.hatch_rate.kind = "float64"

\* clients.(uint64), else clients.(int64): panics unless the field is one of
\* the two, which is what the decoder makes of an integer
ClientsOK(m) == m.num_clients.kind = "integer"

\* int(rate.(float64)): the conversion truncates towards zero
FloatToInt(v) == v \div RateDen

\* int(clients.(uint64)), else int(clients.(int64)): the count itself, for
\* the counts of the model (all below 2^63, where the two agree)
ToInt(v) == v

\* the payload is parsed, "hatching" is sent, the rate limiter is started
onHatchMessage ==
    /\ alive /\ lpc = "hatch_msg"
    /\ IF RateOK(msg) /\ ClientsOK(msg)
         THEN /\ Send(Message("hatching", 0, ncycles + 1, "listener"))
              /\ limiterOn' = IF rateLimitEnabled THEN TRUE ELSE limiterOn
              /\ lpc' = "start"
              /\ UNCHANGED <<stopChan, sig, numClients, hatchRate, cfgVars,
                             stateVars, msg, nrequested, nmsgs, spawnerVars,
                             workerVars, closeVars, subscribed, runpc, panicked,
                             relayVars, sinkVars>>
         ELSE Crash("interface conversion: hatch payload")

RECURSIVE SumWeights(_)
SumWeights(ts) == IF ts = <<>> THEN 0 ELSE Head(ts) + SumWeights(Tail(ts))

\* runner.getWeightSum
getWeightSum == SumWeights(tasks)

\* ----------------------------------------------- runner.startHatching
\* clearStatsChan <- true; r.stopChan = make(chan bool); r.hatchRate = hatchRate;
\* r.numClients = 0; outputOnStart; go r.spawnWorkers(spawnCount, r.stopChan,
\* hatchCompleteFunc): the spawner starts with weightSum computed and i = 0
startHatching(spawnCount, rate, callback) ==
    /\ ncycles' = ncycles + 1
    /\ stopChan' = ncycles + 1
    /\ sig' = [sig EXCEPT ![ncycles + 1] = "open"]
    /\ hatchRate' = rate
    /\ numClients' = 0
    /\ spc' = [spc EXCEPT ![ncycles + 1] = "loop"]
    /\ sarg' = [sarg EXCEPT ![ncycles + 1] =
                  [spawnCount |-> spawnCount, i |-> 0,
                   weightSum |-> getWeightSum, callback |-> callback]]
    /\ UNCHANGED <<hcSent, fromReady>>

\* r.startHatching(workers, hatchRate, r.hatchComplete) in onHatchMessage
ListenerStartHatching ==
    /\ alive /\ lpc = "start"
    /\ startHatching(ToInt(msg.num_clients.val), FloatToInt(msg.hatch_rate.val),
                     TRUE)
    /\ lpc' = "idle"
    /\ msg' = NoMsg
    /\ UNCHANGED <<limiterOn, cfgVars, stateVars, nrequested, nmsgs,
                   workerVars, closeVars, subscribed, outbox, runpc, panicked,
                   relayVars, sinkVars>>

\* case "stop" and case "quit" in hatching or running: r.stop()
ListenerStop ==
    /\ alive /\ lpc \in {"stop", "quit"}
    /\ IF StopPanics
         THEN Crash(StopPanic)
         ELSE /\ stop
              /\ lpc' = IF lpc = "stop" THEN "stop_ack" ELSE "quit_pub"
              /\ UNCHANGED <<stopChan, numClients, hatchRate, cfgVars, stateVars,
                             msg, nrequested, nmsgs, spawnerVars, workerVars,
                             closeVars, subscribed, outbox, runpc, panicked,
                             relayVars, sinkVars>>

\* r.state = stateStopped; client_stopped is sent
ListenerStopped ==
    /\ alive /\ lpc = "stop_ack"
    /\ state' = stateStopped
    /\ stateWriter' = "listener"
    /\ Send(Message("client_stopped", 0, stopChan, "listener"))
    /\ lpc' = "stop_ready"
    /\ UNCHANGED <<runnerVars, cfgVars, msg, nrequested, nmsgs,
                   spawnerVars, workerVars, closeVars, subscribed, runpc,
                   panicked, relayVars, sinkVars>>

\* client_ready is sent; r.state = stateInit
ListenerReady ==
    /\ alive /\ lpc = "stop_ready"
    /\ Send(Message("client_ready", 0, stopChan, "listener"))
    /\ state' = stateInit
    /\ stateWriter' = "listener"
    /\ lpc' = "idle"
    /\ msg' = NoMsg
    /\ UNCHANGED <<runnerVars, cfgVars, nrequested, nmsgs, spawnerVars,
                   workerVars, closeVars, subscribed, runpc, panicked,
                   relayVars, sinkVars>>

\* case "quit": Events.Publish("boomer:quit"), and r.state = stateInit unless
\* the state was ready
ListenerQuit ==
    /\ alive /\ lpc \in {"ready_quit", "quit_pub", "stopped_quit"}
    /\ PublishQuit("listener")
    /\ IF lpc = "ready_quit"
         THEN UNCHANGED stateVars
         ELSE /\ state' = stateInit
              /\ stateWriter' = "listener"
    /\ lpc' = "idle"
    /\ msg' = NoMsg
    /\ UNCHANGED <<runnerVars, cfgVars, nrequested, nmsgs,
                   spawnerVars, workerVars, closeVars, subscribed, runpc,
                   panicked, relayVars, sinkVars>>

\* ------------------------------------------------ runner.spawnWorkers
\* one turn of `for i := 0; i < spawnCount; i++ { select { case <-quit: ... } }`:
\* the loop is over (then hatchCompleteFunc, if any), or quit is closed
\* (return), or a user goroutine is started
SpawnLoop(c) ==
    /\ alive /\ spc[c] = "loop"
    /\ IF sarg[c].i >= sarg[c].spawnCount
         THEN /\ spc' = [spc EXCEPT ![c] = IF sarg[c].callback THEN "complete" ELSE "done"]
              /\ UNCHANGED workerVars
         ELSE IF sig[c] = "closed"
           THEN /\ spc' = [spc EXCEPT ![c] = "done"]
                /\ UNCHANGED workerVars
           ELSE /\ nworkers < MaxWorkers
                /\ nworkers' = nworkers + 1
                /\ wpc' = [wpc EXCEPT ![nworkers + 1] = "check"]
                /\ wcyc' = [wcyc EXCEPT ![nworkers + 1] = c]
                /\ UNCHANGED <<wsel, wdraw>>
                /\ spc' = [spc EXCEPT ![c] = "count"]
    /\ UNCHANGED <<runnerVars, cfgVars, stateVars, listenerVars, sarg, hcSent,
                   ncycles, fromReady, closeVars, subscribed, outbox, runpc,
                   panicked, relayVars, sinkVars>>

\* atomic.AddInt32(&r.numClients, 1), then the pacing decision on r.hatchRate
SpawnCount(c) ==
    /\ alive /\ spc[c] = "count"
    /\ numClients' = numClients + 1
    /\ IF hatchRate # 0 /\ hatchType = "smooth"
         THEN /\ spc' = [spc EXCEPT ![c] = "pace"]
              /\ UNCHANGED sarg
         ELSE /\ spc' = [spc EXCEPT ![c] = "loop"]
              /\ sarg' = [sarg EXCEPT ![c].i = @ + 1]
    /\ UNCHANGED <<stopChan, sig, hatchRate, limiterOn, cfgVars, stateVars,
                   listenerVars, hcSent, ncycles, fromReady, workerVars,
                   closeVars, subscribed, outbox, runpc, panicked,
                   relayVars, sinkVars>>

\* <-time.After(time.Second / time.Duration(r.hatchRate)): r.hatchRate is read
\* again, after the test that it is not 0.  A startHatching of the listener
\* in between may have set it to 0: the division then panics (integer divide
\* by zero), unless the build has kept the value of the first read.
SpawnPace(c) ==
    /\ alive /\ spc[c] = "pace"
    /\ \/ /\ hatchRate = 0
          /\ Crash("integer divide by zero")
       \/ /\ spc' = [spc EXCEPT ![c] = "loop"]
          /\ sarg' = [sarg EXCEPT ![c].i = @ + 1]
          /\ UNCHANGED <<runnerVars, cfgVars, stateVars, listenerVars, hcSent,
                         ncycles, fromReady, workerVars, closeVars,
                         subscribed, outbox, runpc, panicked,
                         relayVars, sinkVars>>

\* slaveRunner.hatchComplete, called by the spawner goroutine:
\* data["count"] = r.numClients; hatch_complete is sent.  Kept with it: whether
\* the cycle's hatching and client_stopped were on the channel before it, and
\* whether the cycle's stop channel was closed by then.
hatchComplete(c) ==
    /\ alive /\ spc[c] = "complete"
    /\ hcSent' = [hcSent EXCEPT ![c] =
                    [sent |-> TRUE, count |-> numClients,
                     acked |-> Sent("hatching", c),
                     stopped |-> Sent("client_stopped", c),
                     closed |-> sig[c] = "closed"]]
    /\ spc' = [spc EXCEPT ![c] = "set_running"]
    /\ UNCHANGED <<runnerVars, cfgVars, stateVars, listenerVars, sarg, ncycles,
                   fromReady, workerVars, closeVars, subscribed, outbox, runpc,
                   panicked, relayVars, sinkVars>>

\* r.state = stateRunning, still in the spawner goroutine
hatchCompleteSetState(c) ==
    /\ alive /\ spc[c] = "set_running"
    /\ state' = stateRunning
    /\ stateWriter' = "spawner"
    /\ spc' = [spc EXCEPT ![c] = "done"]
    /\ UNCHANGED <<runnerVars, cfgVars, listenerVars, sarg, hcSent, ncycles,
                   fromReady, workerVars, closeVars, subscribed, outbox, runpc,
                   panicked, relayVars, sinkVars>>

\* ------------------------------------------------- the user goroutine
\* a user goroutine whose select never takes `case <-quit`
WorkerCheckNoQuit(w) ==
    /\ alive /\ wpc[w] = "check"
    /\ wpc' = [wpc EXCEPT ![w] = "go"]
    /\ UNCHANGED <<runnerVars, cfgVars, stateVars, listenerVars, spawnerVars,
                   wcyc, wsel, wdraw, nworkers, closeVars, subscribed, outbox, runpc,
                   panicked, relayVars, sinkVars>>

\* select { case <-quit: return; default: ... }
WorkerCheck(w) ==
    /\ alive /\ wpc[w] = "check"
    /\ wpc' = [wpc EXCEPT ![w] = IF sig[wcyc[w]] = "closed" THEN "done" ELSE "go"]
    /\ UNCHANGED <<runnerVars, cfgVars, stateVars, listenerVars, spawnerVars,
                   wcyc, wsel, wdraw, nworkers, closeVars, subscribed, outbox, runpc,
                   panicked, relayVars, sinkVars>>

\* a selection by running cumulative fraction: the first task, in order, with
\* index <= (sum of the weights up to it)/weightSum
RECURSIVE FirstWithinCumulative(_, _, _, _)
FirstWithinCumulative(ts, sum, d, k) ==
    IF k > Len(ts) THEN 0
    ELSE IF d * sum <= SumWeights(SubSeq(ts, 1, k)) * DrawDen THEN k
    ELSE FirstWithinCumulative(ts, sum, d, k + 1)

\* the task of the weighted branch for the draw d/DrawDen: the first task,
\* in order, with index <= float64(task.Weight)/float64(weightSum); 0 is nil
RECURSIVE FirstWithin(_, _, _, _)
FirstWithin(ts, sum, d, k) ==
    IF k > Len(ts) THEN 0
    ELSE IF d * sum <= ts[k] * DrawDen THEN k
    ELSE FirstWithin(ts, sum, d, k + 1)

\* the task a worker selects, for the draws of random.Int63n and
\* random.Float64
SelectTask(ts, sum, idx, d) ==
    IF sum = 0 THEN idx ELSE FirstWithin(ts, sum, d, 1)

\* one pass of the default branch for given outcomes of Acquire, of
\* random.Int63n and of random.Float64: `continue` when blocked; else the
\* selection, and the call of safeRun if selected != nil
Select(w, blocked, idx, d) ==
    /\ alive /\ wpc[w] = "go"
    /\ LET selected == SelectTask(tasks, sarg[wcyc[w]].weightSum, idx, d)
       IN  IF blocked \/ selected = 0
             THEN /\ wpc' = [wpc EXCEPT ![w] = "check"]
                  /\ UNCHANGED wsel
             ELSE /\ wpc' = [wpc EXCEPT ![w] = "run"]
                  /\ wsel' = [wsel EXCEPT ![w] = selected]
    /\ UNCHANGED <<runnerVars, cfgVars, stateVars, listenerVars, spawnerVars,
                   wcyc, nworkers, closeVars, subscribed, outbox, runpc,
                   panicked, relayVars, sinkVars>>

\* rateLimiter.Acquire() if enabled, `continue` when blocked; else the
\* selection of a task
WorkerSelect(w) ==
    /\ \E blocked \in (IF rateLimitEnabled THEN BOOLEAN ELSE {FALSE}),
          idx \in 1..Len(tasks), d \in 0..(DrawDen - 1) :
             Select(w, blocked, idx, d)
    /\ UNCHANGED wdraw

\* the same pass with its draws kept for inspection
WorkerSelectDrawn(w) ==
    \E blocked \in (IF rateLimitEnabled THEN BOOLEAN ELSE {FALSE}),
       idx \in 1..Len(tasks), d \in 0..(DrawDen - 1) :
          /\ Select(w, blocked, idx, d)
          /\ wdraw' = [wdraw EXCEPT ![w] =
                          [blocked |-> blocked, idx |-> idx, d |-> d]]

\* a user goroutine that goes on to the next acquire/select after a task
\* without the select on quit
safeRunNoCheck(w) ==
    /\ alive /\ wpc[w] = "run"
    /\ wpc' = [wpc EXCEPT ![w] = "go"]
    /\ wsel' = [wsel EXCEPT ![w] = 0]
    /\ UNCHANGED <<runnerVars, cfgVars, stateVars, listenerVars, spawnerVars,
                   wcyc, wdraw, nworkers, closeVars, subscribed, outbox, runpc,
                   panicked, relayVars, sinkVars>>

\* a safeRun without the deferred recover: the panic of the task goes up the
\* goroutine and ends the process
safeRunNoRecover(w) ==
    /\ alive /\ wpc[w] = "recover"
    /\ Crash("panic in task")

\* r.safeRun(selected.Fn): fn() returns, and so does safeRun; or fn() panics,
\* and the deferred function runs
safeRun(w) ==
    /\ alive /\ wpc[w] = "run"
    /\ \E outcome \in {"returned", "panicked"} :
         IF outcome = "returned"
           THEN /\ wpc' = [wpc EXCEPT ![w] = "check"]
                /\ wsel' = [wsel EXCEPT ![w] = 0]
           ELSE /\ wpc' = [wpc EXCEPT ![w] = "recover"]
                /\ UNCHANGED wsel
    /\ UNCHANGED <<runnerVars, cfgVars, stateVars, listenerVars, spawnerVars,
                   wcyc, wdraw, nworkers, closeVars, subscribed, outbox, runpc,
                   panicked, relayVars, sinkVars>>

\* the deferred function of safeRun: recover() returns the error, which is
\* written to stderr with the stack trace; safeRun returns to the worker loop
safeRunRecover(w) ==
    /\ alive /\ wpc[w] = "recover"
    /\ wpc' = [wpc EXCEPT ![w] = "check"]
    /\ wsel' = [wsel EXCEPT ![w] = 0]
    /\ UNCHANGED <<runnerVars, cfgVars, stateVars, listenerVars, spawnerVars,
                   wcyc, wdraw, nworkers, closeVars, subscribed, outbox, runpc,
                   panicked, relayVars, sinkVars>>

\* ------------------------------------------------------ runner.addOutput
\* the embedding program adds a sink before it calls run()
addOutput ==
    /\ alive /\ runpc = "start" /\ outputs < MaxOutputs
    /\ outputs' = outputs + 1
    /\ UNCHANGED <<runnerVars, cfgVars, stateVars, listenerVars, spawnerVars,
                   workerVars, closeVars, subscribed, outbox, runpc, panicked,
                   relayVars, pending, delivered>>

\* ------------------------------------------- the relay of slaveRunner.run
\* case data := <-r.stats.messageToRunnerChan
RelayDrain ==
    /\ alive /\ rpc = "idle" /\ ndrained < MaxEvents
    /\ ndrained' = ndrained + 1
    /\ rpc' = "test_init"
    /\ UNCHANGED <<runnerVars, cfgVars, stateVars, listenerVars, spawnerVars,
                   workerVars, closeVars, subscribed, outbox, runpc, panicked,
                   rcount, statsAt, sinkVars>>

\* r.state == stateInit, the first operand of the ||: continue if it holds
RelayTestInit ==
    /\ alive /\ rpc = "test_init"
    /\ rpc' = IF state = stateInit THEN "idle" ELSE "test_stopped"
    /\ UNCHANGED <<runnerVars, cfgVars, stateVars, listenerVars, spawnerVars,
                   workerVars, closeVars, subscribed, outbox, runpc, panicked,
                   ndrained, rcount, statsAt, sinkVars>>

\* r.state == stateStopped, a second read of r.state: continue if it holds
RelayTestStopped ==
    /\ alive /\ rpc = "test_stopped"
    /\ rpc' = IF state = stateStopped THEN "idle" ELSE "send"
    /\ UNCHANGED <<runnerVars, cfgVars, stateVars, listenerVars, spawnerVars,
                   workerVars, closeVars, subscribed, outbox, runpc, panicked,
                   ndrained, rcount, statsAt, sinkVars>>

\* ---------------------------------------------- runner.outputOnEevent
\* size == 0: return; else one goroutine per sink and wg.Wait()
outputOnEevent ==
    IF outputs = 0
      THEN /\ rpc' = "idle"
           /\ UNCHANGED pending
      ELSE /\ rpc' = "wait"
           /\ pending' = 1..outputs

\* data["user_count"] = r.numClients; the stats message is sent;
\* r.outputOnEevent(data).  (rcount is kept while a sink holds the event.)
RelaySend ==
    /\ alive /\ rpc = "send"
    /\ statsAt' = state
    /\ rcount' = IF outputs = 0 THEN 0 ELSE numClients
    /\ outputOnEevent
    /\ UNCHANGED <<runnerVars, cfgVars, stateVars, listenerVars, spawnerVars,
                   workerVars, closeVars, subscribed, outbox, runpc, panicked,
                   ndrained, outputs, delivered>>

\* o.OnEvent(data); wg.Done()
SinkOnEvent(o) ==
    /\ alive /\ o \in pending
    /\ delivered' = [delivered EXCEPT ![o] = @ + 1]
    /\ pending' = pending \ {o}
    /\ UNCHANGED <<runnerVars, cfgVars, stateVars, listenerVars, spawnerVars,
                   workerVars, closeVars, subscribed, outbox, runpc, panicked,
                   relayVars, outputs>>

\* wg.Wait() returns
RelayJoin ==
    /\ alive /\ rpc = "wait" /\ pending = {}
    /\ rpc' = "idle"
    /\ rcount' = 0
    /\ UNCHANGED <<runnerVars, cfgVars, stateVars, listenerVars, spawnerVars,
                   workerVars, closeVars, subscribed, outbox, runpc, panicked,
                   ndrained, statsAt, sinkVars>>

\* the relay goroutine (its case <-r.closeChan is for the runs with close())
Relay ==
    \/ RelayDrain \/ RelayTestInit \/ RelayTestStopped \/ RelaySend
    \/ (\E o \in Sinks : SinkOnEvent(o)) \/ RelayJoin

\* ---------------------------------------------------------- Local Mode
\* the runner as newLocalRunner returns it: hatchCount and hatchRate are
\* given, the console output is the one sink
newLocalRunner(lists) ==
    /\ state = ""
    /\ stateWriter = "none"
    /\ stopChan = 0
    /\ sig = [c \in Cycles |-> "none"]
    /\ closeChan = "open"
    /\ numClients = 0
    /\ hatchRate \in 0..MaxRate
    /\ hatchType \in {"smooth", "asap"}
    /\ hatchCount \in 0..MaxWorkers
    /\ rateLimitEnabled \in BOOLEAN
    /\ limiterOn = FALSE
    /\ tasks \in lists
    /\ subscribed = FALSE
    /\ outbox = <<>>
    /\ runpc = "start"
    /\ lpc = "off"
    /\ msg = NoMsg
    /\ spc = [c \in Cycles |-> "none"]
    /\ sarg = [c \in Cycles |-> NoSpawn]
    /\ hcSent = [c \in Cycles |-> NoHC]
    /\ fromReady = [c \in Cycles |-> FALSE]
    /\ wpc = [w \in Workers |-> "none"]
    /\ wcyc = [w \in Workers |-> 0]
    /\ wsel = [w \in Workers |-> 0]
    /\ wdraw = [w \in Workers |-> NoDraw]
    /\ panicked = ""
    /\ ncycles = 0
    /\ nworkers = 0
    /\ nrequested = 0
    /\ nmsgs = 0
    /\ ncloses = 0
    /\ rpc = "off"
    /\ ndrained = 0
    /\ rcount = 0
    /\ statsAt = "none"
    /\ outputs = 1
    /\ pending = {}
    /\ delivered = [o \in Sinks |-> 0]

LocalInit == newLocalRunner(TaskLists)

\* localRunner.run: r.state = stateInit; r.stats.start(); the goroutine of
\* the select loop is started
LocalRunStart ==
    /\ alive /\ runpc = "start"
    /\ state' = stateInit
    /\ stateWriter' = "run"
    /\ rpc' = "idle"
    /\ runpc' = "hatch"
    /\ UNCHANGED <<runnerVars, cfgVars, listenerVars, spawnerVars, workerVars,
                   closeVars, subscribed, outbox, panicked, ndrained, rcount,
                   statsAt, sinkVars>>

\* rateLimiter.Start() if enabled; r.startHatching(r.hatchCount, r.hatchRate,
\* nil); then wg.Wait()
LocalRunHatch ==
    /\ alive /\ runpc = "hatch"
    /\ limiterOn' = IF rateLimitEnabled THEN TRUE ELSE limiterOn
    /\ startHatching(hatchCount, hatchRate, FALSE)
    /\ runpc' = "wait"
    /\ UNCHANGED <<cfgVars, stateVars, listenerVars, workerVars, closeVars,
                   subscribed, outbox, panicked, relayVars, sinkVars>>

\* wg.Wait() returns after the wg.Done() of the select loop: run returns
LocalRunReturn ==
    /\ alive /\ runpc = "wait" /\ rpc = "exit"
    /\ runpc' = "done"
    /\ UNCHANGED <<runnerVars, cfgVars, stateVars, listenerVars, spawnerVars,
                   workerVars, closeVars, subscribed, outbox, panicked,
                   relayVars, sinkVars>>

\* case data := <-r.stats.messageToRunnerChan: data["user_count"] =
\* r.numClients; r.outputOnEevent(data)
LocalRelayDrain ==
    /\ alive /\ rpc = "idle" /\ ndrained < MaxEvents
    /\ ndrained' = ndrained + 1
    /\ rcount' = IF outputs = 0 THEN 0 ELSE numClients
    /\ outputOnEevent
    /\ UNCHANGED <<runnerVars, cfgVars, stateVars, listenerVars, spawnerVars,
                   workerVars, closeVars, subscribed, outbox, runpc, panicked,
                   statsAt, outputs, delivered>>

\* case <-r.closeChan: Events.Publish("boomer:quit"), which runner.go
\* subscribes nothing to in Local Mode
LocalRelayQuit ==
    /\ alive /\ rpc = "idle" /\ closeChan = "closed"
    /\ rpc' = "stop"
    /\ UNCHANGED <<runnerVars, cfgVars, stateVars, listenerVars, spawnerVars,
                   workerVars, closeVars, subscribed, outbox, runpc, panicked,
                   ndrained, rcount, statsAt, sinkVars>>

\* r.stop(); wg.Done(); return
LocalRelayStop ==
    /\ alive /\ rpc = "stop"
    /\ IF StopPanics
         THEN Crash(StopPanic)
         ELSE /\ stop
              /\ rpc' = "exit"
              /\ UNCHANGED <<stopChan, numClients, hatchRate, cfgVars, stateVars,
                             listenerVars, spawnerVars, workerVars, closeVars,
                             subscribed, outbox, runpc, panicked, ndrained,
                             rcount, statsAt, sinkVars>>

LocalRun == LocalRunStart \/ LocalRunHatch \/ LocalRunReturn

LocalRelay ==
    \/ LocalRelayDrain \/ (\E o \in Sinks : SinkOnEvent(o)) \/ RelayJoin
    \/ LocalRelayQuit \/ LocalRelayStop

\* the spawner of Local Mode has no callback
LocalSpawner(c) == SpawnLoop(c) \/ SpawnCount(c) \/ SpawnPace(c)

\* ----------------------------------------------------- specification
Run == RunConnect \/ RunStart \/ RunSubscribe

Listener ==
    \/ ListenerRecv \/ ListenerDrop \/ ListenerExit \/ ListenerHatch
    \/ onHatchMessage
    \/ ListenerStartHatching \/ ListenerStop \/ ListenerStopped
    \/ ListenerReady \/ ListenerQuit

Spawner(c) ==
    \/ SpawnLoop(c) \/ SpawnCount(c) \/ SpawnPace(c)
    \/ hatchComplete(c) \/ hatchCompleteSetState(c)

Worker(w) ==
    WorkerCheck(w) \/ WorkerSelect(w) \/ safeRun(w) \/ safeRunRecover(w)

Next ==
    \/ Run
    \/ Close
    \/ Listener
    \/ \E c \in Cycles : Spawner(c)
    \/ \E w \in Workers : Worker(w)

Spec == Init /\ [][Next]_vars

\* The scheduler of Go runs every runnable goroutine: run(), a handler of the
\* listener once it has taken a message, a spawner and a user goroutine go
\* on.  Nothing makes the controller send a message or the embedding program
\* call close().
Handler ==
    \/ ListenerDrop \/ ListenerHatch \/ onHatchMessage \/ ListenerStartHatching
    \/ ListenerStop \/ ListenerStopped \/ ListenerReady \/ ListenerQuit

Fairness ==
    /\ WF_vars(Run)
    /\ WF_vars(Handler)
    /\ \A c \in Cycles : WF_vars(Spawner(c))
    /\ \A w \in Workers : WF_vars(Worker(w))

\* the runs in which the embedding program does not call close(): the
\* listener stays in its loop
NextOpen ==
    \/ Run
    \/ ListenerRecv
    \/ Handler
    \/ \E c \in Cycles : Spawner(c)
    \/ \E w \in Workers : Worker(w)

FairSpec == Init /\ [][NextOpen]_vars /\ Fairness


\* =====================================================================
\* The claims
\* =====================================================================

\* C1: in Agent Mode the stop channel made by one startHatching call is
\* closed at most once, under every sequence of hatch/stop/quit messages and
\* every interleaving of the listener with the spawner and its hatchComplete
\* callback: close is never applied to a stop channel that is already closed.
C1_StopChanClosedAtMostOnce ==
    panicked # "close of closed channel: stopChan"

\* C2: after run() has initialised it, r.state is written by the listener
\* goroutine only: no spawner, worker or other goroutine ever writes it.
C2_ListenerIsTheOnlyWriter ==
    stateWriter \in {"none", "run", "listener"}

\* the handler of a stop message has run to its end, and the listener has
\* received no hatch message since
StopSettled ==
    /\ alive
    /\ lpc \notin {"hatch", "rehatch", "hatch_msg", "start", "stop_ack", "stop_ready"}
    /\ \E k \in 1..Len(outbox) :
         /\ outbox[k].type = "client_ready" /\ outbox[k].from = "listener"
         /\ \A j \in (k + 1)..Len(outbox) : outbox[j].type # "hatching"

\* C3: a stop message handled in state hatching or running sends
\* client_stopped and then client_ready with no other message of the
\* listener between them, and from the end of the handler until the next
\* inbound hatch message the state is ready.
C3_StopYieldsReady ==
    /\ \A k \in 1..Len(outbox) :
         outbox[k].type = "client_stopped" /\ k < Len(outbox)
            => outbox[k + 1].type = "client_ready"
    /\ StopSettled /\ lpc = "idle" => state = stateInit

\* cycle c was started by a hatch message taken in state ready
Started(c) == fromReady[c] /\ spc[c] \notin {"none", "dead"}

\* hatch_complete of cycle c is on the send channel, behind the hatching
\* acknowledgement of c, and the state is running
Completed(c) ==
    hcSent[c].sent /\ hcSent[c].acked /\ state = stateRunning

\* C4: a hatch message taken in state ready starts a cycle whose hatching
\* acknowledgement is sent, and unless the cycle is cancelled (or the runner
\* closed) the ramp-up comes to its end: hatch_complete is sent after the
\* cycle's hatching acknowledgement and the state becomes running.
C4_HatchRunsToCompletion ==
    \A c \in Cycles :
        [](Started(c) =>
              /\ Sent("hatching", c)
              /\ <>(Completed(c) \/ sig[c] = "closed" \/ closeChan = "closed"))

\* C5: an inbound quit is not echoed: handling a quit message of the
\* controller, in whatever state, puts no quit message on the send channel.
C5_QuitIsNotEchoed ==
    \A k \in 1..Len(outbox) :
        ~(outbox[k].type = "quit" /\ outbox[k].from = "listener")

\* C6: close() is idempotent: a second call does not fault, r.closeChan is
\* closed exactly once.
C6_CloseIsIdempotent ==
    panicked # "close of closed channel: closeChan"

\* C7: once stop() has closed a cycle's stop channel, the spawner of that
\* cycle never calls hatchComplete: no hatch_complete is sent for a cycle
\* whose channel is closed.
C7_NoCompletionAfterStop ==
    \A c \in Cycles : hcSent[c].sent => ~hcSent[c].closed

\* the workers started in cycle c
Launched(c) == { w \in Workers : wcyc[w] = c }

\* C8: for a hatch cycle with count N whose stop channel is not closed,
\* exactly N workers are started, hatch_complete carries count = N, and
\* r.numClients is N from then on.
C8_CompleteCountsN ==
    \A c \in Cycles :
        hcSent[c].sent /\ sig[c] = "open"
            => /\ Cardinality(Launched(c)) = sarg[c].spawnCount
               /\ hcSent[c].count = sarg[c].spawnCount
               /\ numClients = sarg[c].spawnCount

\* C9: once stop() has closed the stop channel of a cycle, every user
\* goroutine started in that cycle ends (it returns, or the process is
\* gone), rate-limited or not and whether its tasks panic or return.
C9_WorkersTerminate ==
    \A w \in Workers :
        [](wcyc[w] # 0 /\ sig[wcyc[w]] = "closed"
              => <>(wpc[w] \in {"done", "dead"}))

\* a rate-limited user goroutine has returned on the closed stop channel
C9_Witness ==
    \E w \in Workers :
        /\ wpc[w] = "done" /\ sig[wcyc[w]] = "closed"
        /\ rateLimitEnabled

\* C10: a user goroutine that has seen its stop channel closed has returned
\* and begins nothing more; a task begins only in an iteration that started
\* with the select on quit finding the channel open; a task that runs while
\* the channel is closed may end.
C10_NoTaskAfterQuit ==
    [][\A w \in Workers :
          /\ wpc[w] = "done" => wpc'[w] \in {"done", "dead"}
          /\ wpc'[w] = "run" /\ wpc[w] # "run" => wpc[w] = "go"
          /\ wpc'[w] = "go" /\ wpc[w] # "go"
                => wpc[w] = "check" /\ sig[wcyc[w]] = "open"]_vars

\* a task is running while the stop channel of its cycle is closed
C10_Witness ==
    \E w \in Workers : wpc[w] = "run" /\ sig[wcyc[w]] = "closed"

\* C11: a hatch message whose payload lacks num_clients or hatch_rate, or has
\* them with another type, is rejected without a fault: the listener goes on,
\* no cycle is started, no hatching is sent and the state is as before.
C11_MalformedHatchRejected ==
    panicked # "interface conversion: hatch payload"

\* =====================================================================
\* The stats relay
\* =====================================================================
\* the runs in which the stats collaborator hands events to the relay and
\* close() is not called; the user goroutines, which touch nothing the relay
\* reads, stand still
RelayNext ==
    \/ addOutput
    \/ Run
    \/ ListenerRecv
    \/ Handler
    \/ \E c \in Cycles : Spawner(c)
    \/ Relay

RelaySpec == Init /\ [][RelayNext]_vars

\* C12: no stats message is put on the send channel at a moment when
\* r.state is ready or stopped.
C12_NoStatsWhenIdle ==
    statsAt \notin {stateInit, stateStopped}

\* C13: every event the relay has drained is delivered to every sink, in
\* every state of the runner: when the relay is back at its select, each sink
\* has had all the events drained so far; and no event is drained while a
\* fan-out is under way.
C13_EveryEventToEverySink ==
    /\ alive /\ rpc = "idle"
          => \A o \in 1..outputs : delivered[o] = ndrained
    /\ pending # {} => rpc = "wait"

\* =====================================================================
\* Local Mode
\* =====================================================================
LocalNext ==
    \/ LocalRun
    \/ Close
    \/ LocalRelay
    \/ \E c \in Cycles : LocalSpawner(c)
    \/ \E w \in Workers : Worker(w)

LocalFairness ==
    /\ WF_vars(LocalRun)
    /\ WF_vars(LocalRelayQuit \/ LocalRelayStop \/ RelayJoin)
    /\ \A o \in Sinks : WF_vars(SinkOnEvent(o))
    /\ \A c \in Cycles : WF_vars(LocalSpawner(c))
    /\ \A w \in Workers : WF_vars(Worker(w))

LocalSpec == LocalInit /\ [][LocalNext]_vars /\ LocalFairness

\* C14: in Local Mode, however close() and run() interleave, the stop() that
\* follows the close of closeChan finds the stop channel of the cycle made
\* (close is not applied to a nil channel) and is the only stop() (close is
\* not applied to a closed channel).
C14_LocalStopFindsItsCycle ==
    panicked \notin {"close of nil channel: stopChan",
                     "close of closed channel: stopChan"}

\* C15: a panic of a task is contained where the task is called: the user
\* goroutine that ran it goes on to the select on quit of its next iteration
\* with nothing selected (the call is not made again), every other user
\* goroutine is where it was, and the process does not end by it.
C15_TaskPanicContained ==
    [][\A w \in Workers :
          wpc[w] = "recover"
             => /\ panicked' # "panic in task"
                /\ alive' => wpc'[w] \in {"recover", "check"}
                /\ alive' /\ wpc'[w] = "check"
                      => /\ wsel'[w] = 0
                         /\ \A v \in Workers \ {w} : wpc'[v] = wpc[v]
                         /\ UNCHANGED <<spc, lpc, rpc, runpc>>]_vars

\* the task of a user goroutine has panicked inside safeRun
C15_Witness ==
    \E w \in Workers : wpc[w] = "recover" /\ wsel[w] # 0

\* cycle c was started by a hatch message taken in state hatching or running
\* and is ramping up, with no handler of the listener under way
Superseding(c) ==
    /\ alive /\ lpc = "idle"
    /\ ~fromReady[c] /\ stopChan = c /\ sig[c] = "open"
    /\ spc[c] \in {"loop", "count", "pace"}

\* C16: a hatch message taken in state hatching or running stops the current
\* cycle first: the stop channel of the superseded cycle is closed when the
\* hatching acknowledgement is sent and when the new channel is made, the new
\* channel is open when its spawner starts, and the state is hatching while
\* the new cycle ramps up.
C16_RehatchStopsFirst ==
    /\ alive /\ lpc \in {"hatch_msg", "start"} /\ ~fromReady[ncycles + 1]
          => stopChan # 0 /\ sig[stopChan] = "closed"
    /\ \A c \in Cycles :
          alive /\ spc[c] # "none" /\ ~fromReady[c]
             => c > 1 /\ sig[c - 1] = "closed"
    /\ \A c \in Cycles : Superseding(c) => state = stateHatching

\* the rows of the transition table: the (state, message type) pairs that
\* onMessage has a case for
TableRows ==
    ({stateInit, stateStopped} \X {"hatch", "quit"})
        \cup ({stateHatching, stateRunning} \X {"hatch", "stop", "quit"})

\* C17: the listener does something only for a row of the transition table.
\* A message that is no row (a stop in state ready or stopped, an unknown
\* type in any state) is dropped: while and when onMessage returns for it,
\* the listener has changed neither the state nor the stop channel nor
\* numClients, called neither stop() nor startHatching and sent nothing.
\* The state is never quitting.
C17_NoRowNoEffect ==
    [][/\ lpc = "idle" /\ alive' /\ lpc' \notin {"idle", "drop", "exit"}
            => <<state, msg'.type>> \in TableRows
       /\ lpc = "idle" /\ lpc' = "drop" => UNCHANGED <<runnerVars, stateVars, spawnerVars, outbox>>
       /\ lpc = "drop" /\ alive'
            => /\ lpc' \in {"drop", "idle"}
               /\ lpc' = "idle"
                     => UNCHANGED <<runnerVars, stateVars, spawnerVars, outbox>>
       /\ state' # stateQuitting]_vars

\* a message that is no row of the table has been taken in state ready
C17_Witness ==
    alive /\ lpc = "drop" /\ state = stateInit /\ stopChan # 0

\* =====================================================================
\* Task selection: a Local Mode runner over every task list of
\* SelectTaskLists, its spawner and its workers, the draws of each selection
\* kept in wdraw
\* =====================================================================
SelectInit == newLocalRunner(SelectTaskLists)

SelectNext ==
    \/ LocalRunStart
    \/ LocalRunHatch
    \/ \E c \in Cycles : LocalSpawner(c)
    \/ \E w \in Workers :
          WorkerCheck(w) \/ WorkerSelectDrawn(w) \/ safeRun(w) \/ safeRunRecover(w)

SelectSpec == SelectInit /\ [][SelectNext]_vars

\* the tasks whose own weight/sum is >= the draw d/DrawDen (sum > 0)
Qualifying(sum, d) ==
    { k \in 1..Len(tasks) : d * sum <= tasks[k] * DrawDen }

\* C18: the weight sum a cycle's workers use is the sum of the task weights,
\* fixed when the cycle starts. For a pass that the rate limiter does not
\* block: if the sum is zero the task at the drawn index is the one chosen and
\* run; otherwise the task chosen is the first, in registration order, whose
\* own weight/sum is >= the draw (not a running sum), and if no task
\* qualifies none is run in that pass. The chosen task is run once: the
\* worker goes from the call back to its select on quit.
C18_TaskSelection ==
    [][\A w \in Workers :
         LET sum == sarg[wcyc[w]].weightSum
             dr  == wdraw'[w]
             Q   == Qualifying(sum, dr.d)
         IN  /\ wpc[w] = "go" /\ alive' /\ wpc'[w] # "go"
                => /\ sum = SumWeights(tasks) /\ sum >= 0
                   /\ sarg'[wcyc[w]].weightSum = sum
                   /\ dr.blocked => wpc'[w] = "check" /\ wsel'[w] = 0
                   /\ ~dr.blocked /\ sum = 0
                         => /\ wpc'[w] = "run"
                            /\ wsel'[w] = dr.idx
                            /\ dr.idx \in 1..Len(tasks)
                   /\ ~dr.blocked /\ sum # 0 /\ Q # {}
                         => /\ wpc'[w] = "run"
                            /\ wsel'[w] \in Q
                            /\ \A k \in Q : wsel'[w] <= k
                   /\ ~dr.blocked /\ sum # 0 /\ Q = {}
                         => wpc'[w] = "check" /\ wsel'[w] = 0
             /\ wpc[w] = "run" /\ alive'
                => \/ wpc'[w] = "run" /\ wsel'[w] = wsel[w]
                   \/ wpc'[w] \in {"check", "recover"}
             /\ wpc'[w] = "run" /\ wpc[w] # "run" => wpc[w] = "go"]_vars

\* a worker runs the second task of two for a draw above the first task's
\* own fraction, the first task having a weight
C18_Witness ==
    \E w \in Workers :
       /\ wpc[w] = "run" /\ wsel[w] = 2
       /\ tasks[1] > 0 /\ ~wdraw[w].blocked
       /\ wdraw[w].d * SumWeights(tasks) > tasks[1] * DrawDen

\* C19: r.numClients counts only the user goroutines of the current cycle: it
\* never exceeds the count given to the most recent startHatching, also when
\* a hatch supersedes a cycle whose spawner is still at work, and the count
\* of a hatch_complete message is the number of user goroutines started in
\* the cycle that completed.
C19_CountIsOfTheCurrentCycle ==
    /\ alive /\ ncycles > 0 => numClients <= sarg[ncycles].spawnCount
    /\ \A c \in Cycles :
          alive /\ hcSent[c].sent
             => hcSent[c].count = Cardinality(Launched(c))

\* C20: in Agent Mode, while r.state is running the stop channel of the most
\* recently started cycle is open; while r.state is ready every stop channel
\* made so far is closed; and no hatch_complete is sent after the
\* client_stopped of its cycle.
C20_RunningMeansLive ==
    /\ alive /\ state = stateRunning => ncycles > 0 /\ sig[ncycles] = "open"
    /\ alive /\ state = stateInit => \A c \in Cycles : sig[c] # "open"
    /\ \A c \in Cycles : hcSent[c].sent => ~hcSent[c].stopped

====
